---- MODULE Spec2Model ----
(***************************************************************************)
(* The public-good game contract of contracts/game_public_good/lib.rs as a *)
(* state machine.  Every #[ink(message)] is one atomic action (the host    *)
(* serialises calls); a call that traps (unwrap on None, todo!(), checked  *)
(* arithmetic overflow) is reverted by the host and leaves storage as it   *)
(* was.                                                                    *)
(***************************************************************************)
EXTENDS Integers, Sequences, FiniteSets, TLC

(***************************************************************************)
(* Bounds of the model.                                                    *)
(***************************************************************************)
\* player_commits / player_contributions are unbounded Vecs in the code;
\* the model stops accepting play_round calls at this length.
MaxCommits == 2
\* player_reveals is an unbounded Vec in the code; same cap.
MaxReveals == 2
\* Scaled stand-in for u128::MAX, the largest Balance: total_contribution
\* traps (checked add) when it would pass it.
BalanceMax == 3
\* configs.max_players of the games the model constructs (10 in default()).
MaxPlayers == 2
\* Scaled stand-in for the 16 bytes u128::to_le_bytes yields: every integer
\* of the model fits in LeWidth bytes.
LeWidth == 2
\* u8::MAX, the width of next_round_id and of join's returned count.
U8Max == 255

Accounts == {"alice", "bob"}
\* transferred_value() of a call
Values == 0..2
\* (amount, nonce) pairs a caller may reveal
Reveals == {<<1, 7>>, <<258, 7>>}

(***************************************************************************)
(* Option<T>: None is the empty sequence, Some(x) the one-element one.     *)
(***************************************************************************)
None == <<>>
Some(x) == <<x>>
is_none(o) == o = <<>>
is_some(o) == o # <<>>
unwrap(o) == o[1]
\* derived PartialOrd of Option: None < Some(_), Some(a) < Some(b) iff a < b
OptionLt(a, b) ==
    IF is_none(b) THEN FALSE
    ELSE IF is_none(a) THEN TRUE
    ELSE unwrap(a) < unwrap(b)

(***************************************************************************)
(* Result<T, GameError>, plus the trap outcome.                            *)
(***************************************************************************)
Ok(v) == [tag |-> "Ok", val |-> v, err |-> "-"]
Err(e) == [tag |-> "Err", val |-> 0, err |-> e]
Panic == [tag |-> "Panic", val |-> 0, err |-> "-"]
\* what a message leaves behind: the storage, the returned value and the
\* outbound value transfers it had the host make (no message calls
\* env().transfer, so there are none)
Out(g, r) == [game |-> g, result |-> r, transfers |-> <<>>]

(***************************************************************************)
(* reveal_round's hashing: the two u128 as little-endian bytes,            *)
(* concatenated, then Blake2x256.  The digest is collision-free: it is     *)
(* identified by the bytes it was computed from.                           *)
(***************************************************************************)
RECURSIVE LeBytes(_, _)
LeBytes(x, n) == IF n = 0 THEN <<>> ELSE <<x % 256>> \o LeBytes(x \div 256, n - 1)
to_le_bytes(x) == LeBytes(x, LeWidth)
RevealData(reveal) == to_le_bytes(reveal[1]) \o to_le_bytes(reveal[2])
Blake2x256(data) == [blake2x256 |-> data]
\* the commitment an honest player computes off-chain for (amount, nonce)
CommitOf == [r \in Reveals |-> Blake2x256(RevealData(r))]
\* the Hash arguments play_round is called with
Hashes == {CommitOf[r] : r \in Reveals}

VARIABLES players, status, rounds, current_round, next_round_id, configs,
          pre, last, started_before, transfers

vars == <<players, status, rounds, current_round, next_round_id, configs,
          pre, last, started_before, transfers>>

\* the storage struct
Self ==
    [players |-> players, status |-> status, rounds |-> rounds,
     current_round |-> current_round, next_round_id |-> next_round_id,
     configs |-> configs]

\* the GameConfigs a game may be constructed with
ConfigSpace ==
    [max_players : {MaxPlayers},
     min_players : 1..MaxPlayers,
     min_round_contribution : {Some(1)},
     max_round_contribution : {None, Some(1)},
     post_round_actions : {FALSE},
     round_timeout : {Some(0)},
     max_rounds : {None},
     join_fee : {None, Some(1)},
     is_rounds_based : {FALSE}]

new(cfg) ==
    [players |-> <<>>, status |-> "Initialized", rounds |-> <<>>,
     current_round |-> None, next_round_id |-> 1, configs |-> cfg]

\* the record of a call: what was called, by whom, with what, and what it returned
Call(op, caller, player, value, commitment, reveal) ==
    [op |-> op, caller |-> caller, player |-> player, value |-> value,
     commitment |-> commitment, reveal |-> reveal, result |-> Ok(0)]
NoAccount == "-"
NoHash == Blake2x256(<<>>)
NoReveal == <<0, 0>>

Init ==
    \E cfg \in ConfigSpace :
        /\ players = new(cfg).players
        /\ status = new(cfg).status
        /\ rounds = new(cfg).rounds
        /\ current_round = new(cfg).current_round
        /\ next_round_id = new(cfg).next_round_id
        /\ configs = new(cfg).configs
        /\ pre = new(cfg)
        /\ last = Call("new", NoAccount, NoAccount, 0, NoHash, NoReveal)
        /\ started_before = FALSE
        /\ transfers = <<>>

(***************************************************************************)
(* The messages, each as a function from the storage and the call's inputs *)
(* to the storage after the call and the value returned.                   *)
(***************************************************************************)
\* join without the max_players check
join_uncapped(self, caller, player, value) ==
    IF caller # player
    THEN Out(self, Err("CallerMustMatchNewPlayer"))
    ELSE IF is_some(self.configs.join_fee) /\ value < unwrap(self.configs.join_fee)
    THEN Out(self, Err("InsufficientJoiningFees"))
    ELSE LET pushed == Append(self.players, player)
         IN  Out([self EXCEPT !.players = pushed], Ok(Len(pushed) % (U8Max + 1)))

\* join pushing the player before it checks the fee
join_push_first(self, caller, player, value) ==
    IF caller # player
    THEN Out(self, Err("CallerMustMatchNewPlayer"))
    ELSE IF Len(self.players) >= self.configs.max_players
    THEN Out(self, Err("MaxPlayersReached"))
    ELSE LET pushed == Append(self.players, player)
         IN  IF is_some(self.configs.join_fee) /\ value < unwrap(self.configs.join_fee)
             THEN Out([self EXCEPT !.players = pushed], Err("InsufficientJoiningFees"))
             ELSE Out([self EXCEPT !.players = pushed], Ok(Len(pushed) % (U8Max + 1)))

\* join checking the fee before the room
join_fee_first(self, caller, player, value) ==
    IF caller # player
    THEN Out(self, Err("CallerMustMatchNewPlayer"))
    ELSE IF is_some(self.configs.join_fee) /\ value < unwrap(self.configs.join_fee)
    THEN Out(self, Err("InsufficientJoiningFees"))
    ELSE IF Len(self.players) >= self.configs.max_players
    THEN Out(self, Err("MaxPlayersReached"))
    ELSE LET pushed == Append(self.players, player)
         IN  Out([self EXCEPT !.players = pushed], Ok(Len(pushed) % (U8Max + 1)))

join(self, caller, player, value) ==
    IF caller # player
    THEN Out(self, Err("CallerMustMatchNewPlayer"))
    ELSE IF Len(self.players) >= self.configs.max_players
    THEN Out(self, Err("MaxPlayersReached"))
    ELSE IF is_some(self.configs.join_fee) /\ value < unwrap(self.configs.join_fee)
    THEN Out(self, Err("InsufficientJoiningFees"))
    ELSE LET pushed == Append(self.players, player)
         IN  Out([self EXCEPT !.players = pushed], Ok(Len(pushed) % (U8Max + 1)))

\* start_game without the status check
start_game_restartable(self) ==
    IF Len(self.players) < self.configs.min_players
    THEN Out(self, Err("NotEnoughPlayers"))
    ELSE Out([self EXCEPT
                !.current_round = Some([id |-> self.next_round_id,
                                        status |-> "Ready",
                                        player_commits |-> <<>>,
                                        player_reveals |-> <<>>,
                                        player_contributions |-> <<>>,
                                        total_contribution |-> 0,
                                        total_reward |-> 0]),
                !.status = "Started",
                !.next_round_id = self.next_round_id + 1],
             Ok(0))

\* start_game incrementing next_round_id before it builds the round
start_game_increment_first(self) ==
    IF self.status # "Initialized"
    THEN Out(self, Err("InvalidGameStartState"))
    ELSE IF Len(self.players) < self.configs.min_players
    THEN Out(self, Err("NotEnoughPlayers"))
    ELSE Out([self EXCEPT
                !.current_round = Some([id |-> self.next_round_id + 1,
                                        status |-> "Ready",
                                        player_commits |-> <<>>,
                                        player_reveals |-> <<>>,
                                        player_contributions |-> <<>>,
                                        total_contribution |-> 0,
                                        total_reward |-> 0]),
                !.status = "Started",
                !.next_round_id = self.next_round_id + 1],
             Ok(0))

\* start_game without `next_round_id += 1`
start_game_no_increment(self) ==
    IF self.status # "Initialized"
    THEN Out(self, Err("InvalidGameStartState"))
    ELSE IF Len(self.players) < self.configs.min_players
    THEN Out(self, Err("NotEnoughPlayers"))
    ELSE Out([self EXCEPT
                !.current_round = Some([id |-> self.next_round_id,
                                        status |-> "Ready",
                                        player_commits |-> <<>>,
                                        player_reveals |-> <<>>,
                                        player_contributions |-> <<>>,
                                        total_contribution |-> 0,
                                        total_reward |-> 0]),
                !.status = "Started"],
             Ok(0))

start_game(self) ==
    IF self.status # "Initialized"
    THEN Out(self, Err("InvalidGameStartState"))
    ELSE IF Len(self.players) < self.configs.min_players
    THEN Out(self, Err("NotEnoughPlayers"))
    ELSE IF self.next_round_id + 1 > U8Max
    THEN Out(self, Panic)
    ELSE Out([self EXCEPT
                !.current_round = Some([id |-> self.next_round_id,
                                        status |-> "Ready",
                                        player_commits |-> <<>>,
                                        player_reveals |-> <<>>,
                                        player_contributions |-> <<>>,
                                        total_contribution |-> 0,
                                        total_reward |-> 0]),
                !.status = "Started",
                !.next_round_id = self.next_round_id + 1],
             Ok(0))

\* play_round without `total_contribution += value`
play_round_untallied(self, caller, commitment, value) ==
    IF self.status # "Started"
    THEN Out(self, Err("GameNotStarted"))
    ELSE IF is_none(self.current_round)
    THEN Out(self, Err("NoCurrentRound"))
    ELSE IF OptionLt(Some(value), self.configs.max_round_contribution)
    THEN Out(self, Err("InvalidRoundContribution"))
    ELSE LET round == unwrap(self.current_round)
         IN  Out([self EXCEPT !.current_round = Some(
                    [round EXCEPT
                       !.player_commits = Append(@, <<caller, commitment>>),
                       !.player_contributions = Append(@, <<caller, value>>)])],
                 Ok(0))

\* play_round without the status check
play_round_unstarted(self, caller, commitment, value) ==
    IF is_none(self.current_round)
    THEN Out(self, Err("NoCurrentRound"))
    ELSE IF OptionLt(Some(value), self.configs.max_round_contribution)
    THEN Out(self, Err("InvalidRoundContribution"))
    ELSE LET round == unwrap(self.current_round)
             total == round.total_contribution + value
         IN  IF total > BalanceMax
             THEN Out(self, Panic)
             ELSE Out([self EXCEPT !.current_round = Some(
                        [round EXCEPT
                           !.player_commits = Append(@, <<caller, commitment>>),
                           !.player_contributions = Append(@, <<caller, value>>),
                           !.total_contribution = total])],
                      Ok(0))

play_round(self, caller, commitment, value) ==
    IF self.status # "Started"
    THEN Out(self, Err("GameNotStarted"))
    ELSE IF is_none(self.current_round)
    THEN Out(self, Err("NoCurrentRound"))
    ELSE IF OptionLt(Some(value), self.configs.max_round_contribution)
    THEN Out(self, Err("InvalidRoundContribution"))
    ELSE LET round == unwrap(self.current_round)
             total == round.total_contribution + value
         IN  IF total > BalanceMax
             THEN Out(self, Panic)
             ELSE Out([self EXCEPT !.current_round = Some(
                        [round EXCEPT
                           !.player_commits = Append(@, <<caller, commitment>>),
                           !.player_contributions = Append(@, <<caller, value>>),
                           !.total_contribution = total])],
                      Ok(0))

\* Iterator::find: the first element satisfying the test, as an Option
RECURSIVE find(_, _)
find(seq, caller) ==
    IF seq = <<>> THEN None
    ELSE IF Head(seq)[1] = caller THEN Some(Head(seq))
    ELSE find(Tail(seq), caller)

reveal_round(self, caller, reveal) ==
    LET output == Blake2x256(RevealData(reveal))
    IN  IF is_none(self.current_round)
        THEN Out(self, Panic)
        ELSE LET round == unwrap(self.current_round)
                 player_commitment == find(round.player_commits, caller)
             IN  IF is_none(player_commitment)
                 THEN Out(self, Err("CommitmentNotFound"))
                 ELSE IF unwrap(player_commitment)[2] # output
                 THEN Out(self, Err("InvalidReveal"))
                 ELSE Out([self EXCEPT !.current_round = Some(
                            [round EXCEPT
                               !.player_reveals = Append(@, <<caller, reveal>>)])],
                          Ok(0))

\* a complete_round that retires the live round and puts the game back to
\* Initialized
complete_round_resets(self) ==
    IF is_none(self.current_round)
    THEN Out(self, Err("NoCurrentRound"))
    ELSE Out([self EXCEPT
                !.rounds = Append(@, [unwrap(self.current_round) EXCEPT
                                         !.status = "Ended"]),
                !.current_round = None,
                !.status = "Initialized"],
             Ok(0))

\* todo!("implement")
complete_round(self) == Out(self, Panic)
force_complete_round(self) == Out(self, Panic)
end_game(self) == Out(self, Panic)

\* history: a start_game call has returned Ok, up to and including the last call
\* (started_before: up to the last call, excluding it)
StartSucceeded ==
    started_before \/ (last.op = "start_game" /\ last.result.tag = "Ok")

(***************************************************************************)
(* The host: one call at a time, storage loaded before and saved after.    *)
(***************************************************************************)
Dispatch(call, out) ==
    /\ pre' = Self
    /\ last' = [call EXCEPT !.result = out.result]
    /\ players' = out.game.players
    /\ status' = out.game.status
    /\ rounds' = out.game.rounds
    /\ current_round' = out.game.current_round
    /\ next_round_id' = out.game.next_round_id
    /\ configs' = out.game.configs
    /\ started_before' = StartSucceeded
    /\ transfers' = out.transfers

CallJoin ==
    \E caller \in Accounts, player \in Accounts, value \in Values :
        Dispatch(Call("join", caller, player, value, NoHash, NoReveal),
                 join(Self, caller, player, value))

CallStartGame ==
    \E caller \in Accounts :
        Dispatch(Call("start_game", caller, NoAccount, 0, NoHash, NoReveal),
                 start_game(Self))

CallPlayRound ==
    \E caller \in Accounts, commitment \in Hashes, value \in Values :
        /\ is_some(current_round) =>
              Len(unwrap(current_round).player_commits) < MaxCommits
        /\ Dispatch(Call("play_round", caller, NoAccount, value, commitment, NoReveal),
                    play_round(Self, caller, commitment, value))

CallRevealRound ==
    \E caller \in Accounts, reveal \in Reveals :
        /\ is_some(current_round) =>
              Len(unwrap(current_round).player_reveals) < MaxReveals
        /\ Dispatch(Call("reveal_round", caller, NoAccount, 0, NoHash, reveal),
                    reveal_round(Self, caller, reveal))

CallCompleteRound ==
    \E caller \in Accounts :
        Dispatch(Call("complete_round", caller, NoAccount, 0, NoHash, NoReveal),
                 complete_round(Self))

CallForceCompleteRound ==
    \E caller \in Accounts :
        Dispatch(Call("force_complete_round", caller, NoAccount, 0, NoHash, NoReveal),
                 force_complete_round(Self))

CallEndGame ==
    \E caller \in Accounts :
        Dispatch(Call("end_game", caller, NoAccount, 0, NoHash, NoReveal),
                 end_game(Self))

Next ==
    \/ CallJoin
    \/ CallStartGame
    \/ CallPlayRound
    \/ CallRevealRound
    \/ CallCompleteRound
    \/ CallForceCompleteRound
    \/ CallEndGame

Spec == Init /\ [][Next]_vars

(***************************************************************************)
(* What the properties below read off a state.                             *)
(***************************************************************************)
\* the live round's Vecs, empty when there is no live round
LiveCommits(g) ==
    IF is_none(g.current_round) THEN <<>> ELSE unwrap(g.current_round).player_commits
LiveContributions(g) ==
    IF is_none(g.current_round) THEN <<>>
    ELSE unwrap(g.current_round).player_contributions
LiveReveals(g) ==
    IF is_none(g.current_round) THEN <<>> ELSE unwrap(g.current_round).player_reveals
\* the positions of a player's entries in a Vec<(AccountId, _)>
EntriesOf(seq, player) == {i \in DOMAIN seq : seq[i][1] = player}
AtMostOnePerPlayer(seq) == \A a \in Accounts : Cardinality(EntriesOf(seq, a)) <= 1
RECURSIVE SumValues(_)
SumValues(seq) == IF seq = <<>> THEN 0 ELSE Head(seq)[2] + SumValues(Tail(seq))
Returned(op, r) == last.op = op /\ last.result = r
Failed(op) == last.op = op /\ last.result.tag = "Err"
Succeeded(op) == last.op = op /\ last.result.tag = "Ok"

(***************************************************************************)
(* C1: after any sequence of calls the number of admitted players never    *)
(* exceeds configs.max_players; a join succeeds only when the caller is    *)
(* the candidate, and a join with caller # candidate fails with            *)
(* CallerMustMatchNewPlayer.                                               *)
(***************************************************************************)
C1_JoinBoundedAndSelfOnly ==
    /\ Len(players) <= configs.max_players
    /\ Succeeded("join") => last.caller = last.player
    /\ (last.op = "join" /\ last.caller # last.player) =>
          last.result = Err("CallerMustMatchNewPlayer")

\* the registry is full and a join on behalf of another account was refused
C1_Witness ==
    /\ Len(players) = configs.max_players
    /\ last.op = "join"
    /\ last.caller # last.player
    /\ last.result = Err("CallerMustMatchNewPlayer")

(***************************************************************************)
(* C2: no duplicate player is ever admitted: players holds each identity   *)
(* at most once in every reachable state.                                  *)
(***************************************************************************)
C2_NoDuplicatePlayers ==
    \A i, j \in DOMAIN players : i # j => players[i] # players[j]

(***************************************************************************)
(* C3: start_game fails with NotEnoughPlayers whenever |players| <         *)
(* min_players, and with InvalidGameStartState on every call made after a  *)
(* start_game call has succeeded; the storage is unchanged in both cases.  *)
(***************************************************************************)
C3_StartGameErrors ==
    last.op = "start_game" =>
        /\ Len(pre.players) < pre.configs.min_players =>
              (last.result = Err("NotEnoughPlayers") /\ Self = pre)
        /\ started_before =>
              (last.result = Err("InvalidGameStartState") /\ Self = pre)

\* a second start_game after a successful one, with players admitted in between
C3_Witness ==
    /\ last.op = "start_game"
    /\ started_before
    /\ last.result = Err("InvalidGameStartState")
    /\ Len(players) = configs.max_players

(***************************************************************************)
(* C4: with status Initialized and |players| >= min_players, start_game    *)
(* succeeds, sets status Started and installs a live round with id 1,      *)
(* status Ready, empty commits/reveals/contributions and zero totals;      *)
(* players and rounds are left as they were.                               *)
(***************************************************************************)
C4_StartGameInstallsRoundOne ==
    (/\ last.op = "start_game"
     /\ pre.status = "Initialized"
     /\ Len(pre.players) >= pre.configs.min_players) =>
        /\ last.result = Ok(0)
        /\ status = "Started"
        /\ current_round = Some([id |-> 1,
                                 status |-> "Ready",
                                 player_commits |-> <<>>,
                                 player_reveals |-> <<>>,
                                 player_contributions |-> <<>>,
                                 total_contribution |-> 0,
                                 total_reward |-> 0])
        /\ players = pre.players
        /\ rounds = pre.rounds

\* start_game has just succeeded with two players admitted
C4_Witness ==
    /\ Succeeded("start_game")
    /\ pre.status = "Initialized"
    /\ Len(pre.players) = 2
    /\ Len(pre.players) >= pre.configs.min_players

(***************************************************************************)
(* C5: reveal_round succeeds if and only if the caller has a commitment    *)
(* stored in the live round that equals commit(amount, nonce); with a live *)
(* round, a caller without a commitment gets CommitmentNotFound and a      *)
(* secret matching none of the caller's commitments gets InvalidReveal.    *)
(* This is to hold also after the caller has called play_round more than   *)
(* once with different hashes.                                             *)
(***************************************************************************)
C5_CommitRevealSoundness ==
    last.op = "reveal_round" =>
        LET commits == LiveCommits(pre)
            mine == EntriesOf(commits, last.caller)
            matching == \E i \in mine : commits[i][2] = CommitOf[last.reveal]
        IN  /\ last.result.tag = "Ok" <=> matching
            /\ (is_some(pre.current_round) /\ mine = {}) =>
                  last.result = Err("CommitmentNotFound")
            /\ (is_some(pre.current_round) /\ mine # {} /\ ~matching) =>
                  last.result = Err("InvalidReveal")

(***************************************************************************)
(* C6: commitments are write-once: a play_round by a player who already    *)
(* has a commitment in the live round fails, so player_commits and         *)
(* player_contributions hold at most one entry per player.                 *)
(***************************************************************************)
C6_CommitWriteOnce ==
    /\ (last.op = "play_round" /\ EntriesOf(LiveCommits(pre), last.caller) # {}) =>
          last.result.tag # "Ok"
    /\ AtMostOnePerPlayer(LiveCommits(Self))
    /\ AtMostOnePerPlayer(LiveContributions(Self))

(***************************************************************************)
(* C7: reveals are write-once: a reveal_round by a player whose reveal was *)
(* already accepted in the live round fails, so player_reveals holds at    *)
(* most one entry per player.                                              *)
(***************************************************************************)
C7_RevealWriteOnce ==
    /\ (last.op = "reveal_round" /\ EntriesOf(LiveReveals(pre), last.caller) # {}) =>
          last.result.tag # "Ok"
    /\ AtMostOnePerPlayer(LiveReveals(Self))

(***************************************************************************)
(* C8: play_round on a started game with a live round fails with           *)
(* InvalidRoundContribution whenever the attached value is below the       *)
(* configured min_round_contribution or above the configured               *)
(* max_round_contribution, and records nothing then.                       *)
(***************************************************************************)
C8_ContributionBoundsEnforced ==
    (/\ last.op = "play_round"
     /\ pre.status = "Started"
     /\ is_some(pre.current_round)
     /\ \/ (/\ is_some(pre.configs.min_round_contribution)
            /\ last.value < unwrap(pre.configs.min_round_contribution))
        \/ (/\ is_some(pre.configs.max_round_contribution)
            /\ last.value > unwrap(pre.configs.max_round_contribution))) =>
        (last.result = Err("InvalidRoundContribution") /\ Self = pre)

(***************************************************************************)
(* C9: in every reachable state, for the live round and for every archived *)
(* round, the values in player_contributions add up to total_contribution. *)
(***************************************************************************)
C9_EscrowAccounting ==
    /\ is_some(current_round) =>
          SumValues(unwrap(current_round).player_contributions)
              = unwrap(current_round).total_contribution
    /\ \A i \in DOMAIN rounds :
          SumValues(rounds[i].player_contributions) = rounds[i].total_contribution

\* two contributions are on the books, a reveal has been accepted since, and
\* another player has joined
C9_Witness ==
    /\ is_some(current_round)
    /\ Len(unwrap(current_round).player_contributions) = 2
    /\ unwrap(current_round).total_contribution = BalanceMax
    /\ Len(unwrap(current_round).player_reveals) >= 1
    /\ Succeeded("join")

(***************************************************************************)
(* C10: a join, start_game, play_round or reveal_round call that returns   *)
(* an error leaves players, status, rounds, current_round, next_round_id   *)
(* and configs exactly as they were before the call.                       *)
(***************************************************************************)
C10_ErrorsLeaveStorageUnchanged ==
    (\/ Failed("join")
     \/ Failed("start_game")
     \/ Failed("play_round")
     \/ Failed("reveal_round")) => Self = pre

\* a join refused for its fee, with a round under way that holds a commitment
C10_Witness ==
    /\ Returned("join", Err("InsufficientJoiningFees"))
    /\ LiveCommits(Self) # <<>>
\* the accounts with an entry in a Vec<(AccountId, _)>
AccountsIn(seq) == {seq[i][1] : i \in DOMAIN seq}
\* configs.round_timeout ticks have passed since the live round began: the
\* games constructed here have a timeout of 0 ticks, which has passed as soon
\* as the round exists
RoundExpired(g) ==
    /\ is_some(g.current_round)
    /\ is_some(g.configs.round_timeout)
    /\ unwrap(g.configs.round_timeout) = 0
RECURSIVE SumTransfers(_)
SumTransfers(seq) == IF seq = <<>> THEN 0 ELSE Head(seq)[2] + SumTransfers(Tail(seq))

(***************************************************************************)
(* C11: whenever a player has committed in the live round and              *)
(* round_timeout ticks have elapsed, force_complete_round called by a      *)
(* committed player succeeds, even if other committed players have not     *)
(* revealed, and the round is retired with status Ended.                   *)
(***************************************************************************)
C11_ForceCompleteSucceeds ==
    (/\ last.op = "force_complete_round"
     /\ RoundExpired(pre)
     /\ last.caller \in AccountsIn(LiveCommits(pre))) =>
        /\ last.result = Ok(0)
        /\ rounds # <<>>
        /\ rounds[Len(rounds)].id = unwrap(pre.current_round).id
        /\ rounds[Len(rounds)].status = "Ended"

(***************************************************************************)
(* C12: complete_round on a round all of whose committers have revealed,   *)
(* and force_complete_round by a committer of an expired round, settle the *)
(* round: the call succeeds, the values it pays out add up to the round's  *)
(* total_contribution, and nothing is paid to an account that committed    *)
(* but did not reveal.                                                     *)
(***************************************************************************)
C12_SettlementConservesFunds ==
    LET commits == LiveCommits(pre)
        revealers == AccountsIn(LiveReveals(pre))
        settles ==
            \/ /\ last.op = "complete_round"
               /\ commits # <<>>
               /\ AccountsIn(commits) \subseteq revealers
            \/ /\ last.op = "force_complete_round"
               /\ RoundExpired(pre)
               /\ last.caller \in AccountsIn(commits)
    IN  settles =>
            /\ last.result = Ok(0)
            /\ SumTransfers(transfers) = unwrap(pre.current_round).total_contribution
            /\ \A i \in DOMAIN transfers :
                  transfers[i][1] \in AccountsIn(commits) => transfers[i][1] \in revealers
\* the declared orders of GameStatus (as far as the contract uses it) and RoundStatus
GameStatusRank(s) ==
    CASE s = "Initialized" -> 0
      [] s = "Started" -> 1
      [] s = "Ended" -> 2
RoundStatusRank(s) ==
    CASE s = "Ready" -> 0
      [] s = "Started" -> 1
      [] s = "PendingRewardsClaim" -> 2
      [] s = "Ended" -> 3
\* the status of round id in storage g (live or archived), as a set: empty if absent
RoundStatusOf(g, id) ==
    {r.status : r \in {x \in (IF is_none(g.current_round) THEN {}
                              ELSE {unwrap(g.current_round)})
                             \cup {g.rounds[i] : i \in DOMAIN g.rounds} : x.id = id}}
RoundIds(g) ==
    (IF is_none(g.current_round) THEN {} ELSE {unwrap(g.current_round).id})
        \cup {g.rounds[i].id : i \in DOMAIN g.rounds}

(***************************************************************************)
(* C13: no call moves the game status or the status of a round to an       *)
(* earlier value of its order (Initialized, Started, Ended; Ready,         *)
(* Started, PendingRewardsClaim, Ended): across every call the game status *)
(* does not decrease, and every round that existed before the call still   *)
(* exists with a status that did not decrease.                             *)
(***************************************************************************)
C13_StatusesOnlyAdvance ==
    /\ GameStatusRank(pre.status) <= GameStatusRank(status)
    /\ \A id \in RoundIds(pre) :
          /\ RoundStatusOf(Self, id) # {}
          /\ \A before \in RoundStatusOf(pre, id), after \in RoundStatusOf(Self, id) :
                RoundStatusRank(before) <= RoundStatusRank(after)

\* the game has started, its round has taken a commitment and a reveal, and a
\* later call (a refused second start_game) left both statuses where they were
C13_Witness ==
    /\ Returned("start_game", Err("InvalidGameStartState"))
    /\ status = "Started"
    /\ LiveReveals(Self) # <<>>
    /\ RoundStatusOf(Self, 1) = {"Ready"}
LiveRoundStatus(g) ==
    IF is_none(g.current_round) THEN "-" ELSE unwrap(g.current_round).status

(***************************************************************************)
(* C14: the first successful play_round of a round moves its status from   *)
(* Ready to Started: after a successful play_round the live round's status *)
(* is Started, and a round holding a commitment is never Ready.            *)
(***************************************************************************)
C14_FirstCommitStartsRound ==
    /\ Succeeded("play_round") => LiveRoundStatus(Self) = "Started"
    /\ LiveCommits(Self) # <<>> => LiveRoundStatus(Self) # "Ready"

(***************************************************************************)
(* C15: after a successful reveal_round that makes the set of revealers    *)
(* equal to the set of committers of the live round, the round's status is *)
(* PendingRewardsClaim.                                                    *)
(***************************************************************************)
C15_AllRevealedAdvancesRound ==
    (/\ Succeeded("reveal_round")
     /\ AccountsIn(LiveReveals(Self)) = AccountsIn(LiveCommits(Self))) =>
        LiveRoundStatus(Self) = "PendingRewardsClaim"
(***************************************************************************)
(* C16: play_round called while the game status is not Started fails with  *)
(* GameNotStarted, and called with status Started but no live round fails  *)
(* with NoCurrentRound; neither records a commitment or a contribution.    *)
(* No call leaves a started game without a live round, so the second case  *)
(* is also asked of play_round directly, on the current storage with its   *)
(* status set to Started and its live round taken away.                    *)
(***************************************************************************)
C16_PlayRoundNeedsStartedGameAndRound ==
    /\ last.op = "play_round" =>
          /\ pre.status # "Started" =>
                (last.result = Err("GameNotStarted") /\ Self = pre)
          /\ (pre.status = "Started" /\ is_none(pre.current_round)) =>
                (last.result = Err("NoCurrentRound") /\ Self = pre)
    /\ \A caller \in Accounts, commitment \in Hashes, value \in Values :
          LET roundless == [Self EXCEPT !.status = "Started", !.current_round = None]
          IN  play_round(roundless, caller, commitment, value)
                  = Out(roundless, Err("NoCurrentRound"))

\* a play_round before start_game, by an admitted player, was refused
C16_Witness ==
    /\ Returned("play_round", Err("GameNotStarted"))
    /\ status = "Initialized"
    /\ \E i \in DOMAIN players : players[i] = last.caller

(***************************************************************************)
(* C17: in every reachable state, with or without a live round,            *)
(* reveal_round returns success or a GameError and never aborts; a caller  *)
(* with no commitment in the live round gets CommitmentNotFound.           *)
(***************************************************************************)
C17_RevealRoundNeverAborts ==
    last.op = "reveal_round" =>
        /\ last.result.tag \in {"Ok", "Err"}
        /\ EntriesOf(LiveCommits(pre), last.caller) = {} =>
              last.result = Err("CommitmentNotFound")
(***************************************************************************)
(* C18: join with caller = candidate fails with MaxPlayersReached when     *)
(* |players| = max_players; otherwise fails with InsufficientJoiningFees   *)
(* when a join_fee is configured and the attached value is below it;       *)
(* otherwise succeeds, appending the candidate at the end of players       *)
(* (existing order unchanged, nothing else written) and returning the new  *)
(* player count.                                                           *)
(***************************************************************************)
C18_JoinOutcomes ==
    (last.op = "join" /\ last.caller = last.player) =>
        IF Len(pre.players) = pre.configs.max_players
        THEN last.result = Err("MaxPlayersReached") /\ Self = pre
        ELSE IF /\ is_some(pre.configs.join_fee)
                /\ last.value < unwrap(pre.configs.join_fee)
        THEN last.result = Err("InsufficientJoiningFees") /\ Self = pre
        ELSE /\ last.result = Ok(Len(players))
             /\ Self = [pre EXCEPT !.players = Append(pre.players, last.player)]

\* a second player has been admitted behind the first and the count 2 returned
C18_Witness ==
    /\ Returned("join", Ok(2))
    /\ Len(pre.players) = 1
    /\ players = Append(pre.players, last.player)

\* the largest round id in storage g, 0 when it holds no round
LatestRoundId(g) ==
    IF RoundIds(g) = {} THEN 0
    ELSE CHOOSE id \in RoundIds(g) : \A other \in RoundIds(g) : other <= id

(***************************************************************************)
(* C19: in every reachable state a live round exists exactly when the game *)
(* status is Started, current_round is None exactly when the status is     *)
(* Initialized, and next_round_id is one more than the id of the most      *)
(* recently created round (1 before any round exists).                     *)
(***************************************************************************)
C19_RoundMatchesStatus ==
    /\ is_some(current_round) <=> status = "Started"
    /\ is_none(current_round) <=> status = "Initialized"
    /\ next_round_id = LatestRoundId(Self) + 1

\* the game runs its first round, which has taken a commitment
C19_Witness ==
    /\ status = "Started"
    /\ is_some(current_round)
    /\ Succeeded("play_round")
    /\ next_round_id = 2

(***************************************************************************)
(* C20: only admitted players take part in a round: every account with an  *)
(* entry in the live round's player_commits, player_contributions or       *)
(* player_reveals is in players, so the committers are never more than     *)
(* |players|.                                                              *)
(***************************************************************************)
C20_OnlyPlayersTakePart ==
    LET admitted == {players[i] : i \in DOMAIN players}
    IN  /\ AccountsIn(LiveCommits(Self)) \subseteq admitted
        /\ AccountsIn(LiveContributions(Self)) \subseteq admitted
        /\ AccountsIn(LiveReveals(Self)) \subseteq admitted
        /\ Cardinality(AccountsIn(LiveCommits(Self))) <= Len(players)
====
